---- MODULE Spec2Model ----
(***************************************************************************)
(* Model of ArgumentHandler (src/utility/ArgumentHandler.cpp): the option  *)
(* scanner processArguments() and the validator checkArguments().          *)
(*                                                                         *)
(* Texts (C strings) are sequences of symbols.  A symbol is one character  *)
(* ("0".."9", ".", ",", "-", "=") or a run of letters ("x", "nan",         *)
(* "ntree").  The conversions std::stoi, std::stod and splitString work on *)
(* these sequences symbol by symbol.                                       *)
(***************************************************************************)
EXTENDS Integers, Sequences, FiniteSets, TLC

\* ------------------------------------------------------------------ bounds

\* Largest number of argv elements after argv[0].
MaxArgs == 2

\* Largest number of options with their arguments on the longer command lines.
MaxUnits == 4

\* ------------------------------------------------------- C strings, optarg

Digits == {"0", "1", "2", "3", "4", "5", "6", "7", "8", "9"}

DigitVal(d) ==
  CASE d = "0" -> 0 [] d = "1" -> 1 [] d = "2" -> 2 [] d = "3" -> 3
    [] d = "4" -> 4 [] d = "5" -> 5 [] d = "6" -> 6 [] d = "7" -> 7
    [] d = "8" -> 8 [] d = "9" -> 9

\* char* values: the null pointer, or a pointer to a text.
NULL == [null |-> TRUE, s |-> <<>>]

Str(t) == [null |-> FALSE, s |-> t]

\* What a std::string holds after it was assigned from a null char*
\* (undefined behaviour that did not trap): no text an argv can spell.
INDETERMINATE == <<"<indeterminate>">>

\* Number of digit symbols of t from position i on.
RECURSIVE DigitRun(_, _)
DigitRun(t, i) ==
  IF i <= Len(t) /\ t[i] \in Digits THEN 1 + DigitRun(t, i + 1) ELSE 0

\* Value of the n digits of t that start at position i.
RECURSIVE DigitsValue(_, _, _)
DigitsValue(t, i, n) ==
  IF n = 0 THEN 0
  ELSE 10 * DigitsValue(t, i, n - 1) + DigitVal(t[i + n - 1])

RECURSIVE Pow10(_)
Pow10(k) == IF k = 0 THEN 1 ELSE 10 * Pow10(k - 1)

HasSign(t) == Len(t) >= 1 /\ t[1] \in {"-", "+"}

\* Number of "0" symbols of t from position i on.
RECURSIVE ZeroRun(_, _)
ZeroRun(t, i) ==
  IF i <= Len(t) /\ t[i] = "0" THEN 1 + ZeroRun(t, i + 1) ELSE 0

\* Whether the n significant digits of t from position i, with the sign,
\* are a value of int (32 bits): at most 2147483647, at least -2147483648.
FitsInt(t, i, n, negative) ==
  \/ n <= 9
  \/ /\ n = 10
     /\ LET hi == DigitsValue(t, i, 9)
            lo == DigitVal(t[i + 9])
        IN  \/ hi < 214748364
            \/ hi = 214748364 /\ lo <= (IF negative THEN 8 ELSE 7)

\* std::stoi(const std::string&): strtol in base 10.  An optional sign and
\* the longest run of digits are converted, what follows is ignored; no
\* digit at all is std::invalid_argument, a value outside int is
\* std::out_of_range.
stoi(t) ==
  LET i0  == IF HasSign(t) THEN 2 ELSE 1
      n   == DigitRun(t, i0)
      z   == IF ZeroRun(t, i0) = n THEN n - 1 ELSE ZeroRun(t, i0)
      neg == HasSign(t) /\ t[1] = "-"
  IN  IF n = 0 THEN [ok |-> FALSE, v |-> 0, what |-> "invalid_argument"]
      ELSE IF ~FitsInt(t, i0 + z, n - z, neg)
           THEN [ok |-> FALSE, v |-> 0, what |-> "out_of_range"]
           ELSE [ok |-> TRUE,
                 v |-> IF neg THEN 0 - DigitsValue(t, i0, n) ELSE DigitsValue(t, i0, n),
                 what |-> ""]

\* double values: finite decimals num/den (den a power of ten, lowest
\* terms in tens), finite values too large for that, the infinities and NaN.
RECURSIVE Reduce(_, _)
Reduce(num, den) ==
  IF den > 1 /\ num % 10 = 0 THEN Reduce(num \div 10, den \div 10)
  ELSE [cls |-> "fin", num |-> num, den |-> den]

Double(num, den) == Reduce(num, den)

NaN == [cls |-> "nan", num |-> 0, den |-> 1]

Inf(sgn) == [cls |-> "inf", num |-> sgn, den |-> 1]

\* A finite double of ten or more integer digits (magnitude 10^9 at least);
\* only its sign is kept.
Huge(sgn) == [cls |-> "huge", num |-> sgn, den |-> 1]

\* x > 1, x >= 1, x <= 0 on doubles: every comparison with NaN is false.
DGreater1(x) ==
  \/ x.cls = "fin" /\ x.num > x.den
  \/ x.cls \in {"inf", "huge"} /\ x.num > 0

DGreaterEq1(x) ==
  \/ x.cls = "fin" /\ x.num >= x.den
  \/ x.cls \in {"inf", "huge"} /\ x.num > 0

DLessEq0(x) ==
  \/ x.cls = "fin" /\ x.num <= 0
  \/ x.cls \in {"inf", "huge"} /\ x.num < 0

\* std::stod(const std::string&): strtod.  An optional sign, then "nan",
\* "inf", or digits with an optional fraction; what follows is ignored.
\* No conversion is std::invalid_argument.
stod(t) ==
  LET i0   == IF HasSign(t) THEN 2 ELSE 1
      sgn  == IF HasSign(t) /\ t[1] = "-" THEN 0 - 1 ELSE 1
      ni   == DigitRun(t, i0)
      dot  == i0 + ni <= Len(t) /\ t[i0 + ni] = "."
      nf   == IF dot THEN DigitRun(t, i0 + ni + 1) ELSE 0
      ipart == DigitsValue(t, i0, ni)
      fpart == DigitsValue(t, i0 + ni + 1, nf)
  IN  IF i0 <= Len(t) /\ t[i0] \in {"nan", "NaN", "NAN"}
        THEN [ok |-> TRUE, v |-> NaN, what |-> ""]
      ELSE IF i0 <= Len(t) /\ t[i0] \in {"inf", "Inf", "INF", "infinity"}
        THEN [ok |-> TRUE, v |-> Inf(sgn), what |-> ""]
      ELSE IF ni + nf = 0
        THEN [ok |-> FALSE, v |-> NaN, what |-> "invalid_argument"]
      ELSE IF ni - ZeroRun(t, i0) > 9
        THEN [ok |-> TRUE, v |-> Huge(sgn), what |-> ""]
      ELSE [ok |-> TRUE,
            v |-> Double(sgn * (ipart * Pow10(nf) + fpart), Pow10(nf)),
            what |-> ""]

\* The tokens of t between separators, as std::getline yields them: a
\* separator ends a token, the text after the last separator is a token
\* unless it is empty.
RECURSIVE SplitFrom(_, _, _, _)
SplitFrom(t, i, cur, sep) ==
  IF i > Len(t) THEN (IF cur = <<>> THEN <<>> ELSE <<cur>>)
  ELSE IF t[i] = sep THEN <<cur>> \o SplitFrom(t, i + 1, <<>>, sep)
  ELSE SplitFrom(t, i + 1, Append(cur, t[i]), sep)

\* splitString(result, input, split_char) of utility.h: result holds the
\* tokens of input.
splitString(result, input, sep) == SplitFrom(input, 1, <<>>, sep)

\* ----------------------------------------------------------- option tables

\* short_options, character by character.
short_options ==
  << "A", ":", "C", ":", "D", ":", "F", ":", "H", "M", ":", "N", "P", ":",
     "S", ":", "U", ":", "X", "Z", "a", ":", "b", ":", "c", ":", "f", ":",
     "h", "i", "l", ":", ":", "m", ":", "o", ":", "p", "r", ":", "s", ":",
     "t", ":", "u", "v", "w", "y", ":", "z", ":" >>

\* long_options: longname, no/required argument, shortname.
long_options ==
  << [name |-> "alwayssplitvars",     has_arg |-> "required_argument", val |-> "A"],
     [name |-> "caseweights",         has_arg |-> "required_argument", val |-> "C"],
     [name |-> "depvarname",          has_arg |-> "required_argument", val |-> "D"],
     [name |-> "fraction",            has_arg |-> "required_argument", val |-> "F"],
     [name |-> "savemem",             has_arg |-> "no_argument",       val |-> "N"],
     [name |-> "predict",             has_arg |-> "required_argument", val |-> "P"],
     [name |-> "splitweights",        has_arg |-> "required_argument", val |-> "S"],
     [name |-> "nthreads",            has_arg |-> "required_argument", val |-> "U"],
     [name |-> "predall",             has_arg |-> "no_argument",       val |-> "X"],
     [name |-> "version",             has_arg |-> "no_argument",       val |-> "Z"],
     [name |-> "file",                has_arg |-> "required_argument", val |-> "f"],
     [name |-> "help",                has_arg |-> "no_argument",       val |-> "h"],
     [name |-> "targetpartitionsize", has_arg |-> "required_argument", val |-> "l"],
     [name |-> "mtry",                has_arg |-> "required_argument", val |-> "m"],
     [name |-> "quantiles",           has_arg |-> "required_argument", val |-> "q"],
     [name |-> "splitrule",           has_arg |-> "required_argument", val |-> "r"],
     [name |-> "statusvarname",       has_arg |-> "required_argument", val |-> "s"],
     [name |-> "instrumentvarname",   has_arg |-> "required_argument", val |-> "i"],
     [name |-> "ntree",               has_arg |-> "required_argument", val |-> "t"],
     [name |-> "noreplace",           has_arg |-> "no_argument",       val |-> "u"],
     [name |-> "verbose",             has_arg |-> "no_argument",       val |-> "v"],
     [name |-> "write",               has_arg |-> "no_argument",       val |-> "w"],
     [name |-> "treetype",            has_arg |-> "required_argument", val |-> "y"],
     [name |-> "seed",                has_arg |-> "required_argument", val |-> "z"] >>

\* -------------------------------------------------------------------- argv

\* One argv element:
\*   long  "--n" (has = FALSE) or "--n=a" (has = TRUE)
\*   short "-n"  (has = FALSE) or "-na"   (has = TRUE, n takes an argument)
\*   word  "a", not starting with "-"
\*   end   "--"
Long(n) == [k |-> "long", n |-> n, has |-> FALSE, a |-> <<>>]

LongEq(n, a) == [k |-> "long", n |-> n, has |-> TRUE, a |-> a]

Short(n) == [k |-> "short", n |-> n, has |-> FALSE, a |-> <<>>]

ShortArg(n, a) == [k |-> "short", n |-> n, has |-> TRUE, a |-> a]

Word(a) == [k |-> "word", n |-> "", has |-> TRUE, a |-> a]

DashDash == [k |-> "end", n |-> "", has |-> FALSE, a |-> <<>>]

\* The text of an argv element, which is what optarg points to when the
\* element is taken as an option's argument.
Spelling(tok) ==
  CASE tok.k = "word"  -> tok.a
    [] tok.k = "end"   -> <<"-", "-">>
    [] tok.k = "long"  -> <<"-", "-", tok.n>> \o (IF tok.has THEN <<"=">> \o tok.a ELSE <<>>)
    [] tok.k = "short" -> <<"-", tok.n>> \o tok.a

\* ------------------------------------------------------------- getopt_long

\* Every character a short option of short_options or of a command line can be.
OptionChars == {short_options[i] : i \in 1..Len(short_options)} \cup {"q", "Q"}

\* How getopt reads short_options for a character: its position in the
\* string, and the colons that follow it.
ShortArity ==
  [ch \in OptionChars \ {":"} |->
     LET at == {i \in 1..Len(short_options) : short_options[i] = ch}
         colon(j) == j <= Len(short_options) /\ short_options[j] = ":"
     IN  IF at = {} THEN "unknown"
         ELSE LET i == CHOOSE j \in at : TRUE IN
              IF colon(i + 1) /\ colon(i + 2) THEN "optional_argument"
              ELSE IF colon(i + 1) THEN "required_argument"
              ELSE "no_argument"]

\* The long_options entries with a name (at most one).
LongEntries ==
  [name \in {long_options[i].name : i \in 1..Len(long_options)} \cup {"bogus"} |->
     {long_options[i] : i \in {j \in 1..Len(long_options) : long_options[j].name = name}}]

\* What a call leaves: the returned character, optarg, optind, the words it
\* passed, and (for the properties) the position of the option it read.
Result(ch, arg, next, skipped, at) ==
  [c |-> ch, optarg |-> arg, optind |-> next, skipped |-> skipped, at |-> at]

\* The argument of a required_argument option at argv[i]: the text attached
\* to it, else the next argv element whatever it spells, else none, and then
\* getopt returns '?' (short_options does not start with ':').
Required(av, i, ch, skipped) ==
  IF av[i].has THEN Result(ch, Str(av[i].a), i + 1, skipped, i)
  ELSE IF i + 1 <= Len(av) THEN Result(ch, Str(Spelling(av[i + 1])), i + 2, skipped, i)
  ELSE Result("?", NULL, i + 1, skipped, i)

\* getopt_long(argc, argv, short_options, long_options, &option_index) called
\* with optind = i (positions count from 1 = argv[1]).  glibc permutes: the
\* non-option words it passes are set aside (skipped) and come after the
\* options; "--" ends the options.  c is the returned character, "-1" at
\* the end of the options.
RECURSIVE getopt_long(_, _, _)
getopt_long(av, i, skipped) ==
  IF i > Len(av) THEN Result("-1", NULL, i, skipped, i)
  ELSE
    LET tok == av[i] IN
    CASE tok.k = "word" -> getopt_long(av, i + 1, Append(skipped, tok))
      [] tok.k = "end"  ->
           Result("-1", NULL, Len(av) + 1, skipped \o SubSeq(av, i + 1, Len(av)), i)
      [] tok.k = "long" ->
           IF LongEntries[tok.n] = {} THEN Result("?", NULL, i + 1, skipped, i)
           ELSE LET o == CHOOSE e \in LongEntries[tok.n] : TRUE IN
                IF o.has_arg = "no_argument"
                THEN IF tok.has THEN Result("?", NULL, i + 1, skipped, i)
                     ELSE Result(o.val, NULL, i + 1, skipped, i)
                ELSE Required(av, i, o.val, skipped)
      [] tok.k = "short" ->
           CASE ShortArity[tok.n] = "unknown" -> Result("?", NULL, i + 1, skipped, i)
             [] ShortArity[tok.n] = "no_argument" -> Result(tok.n, NULL, i + 1, skipped, i)
             [] ShortArity[tok.n] = "required_argument" -> Required(av, i, tok.n, skipped)
             [] ShortArity[tok.n] = "optional_argument" ->
                  Result(tok.n, IF tok.has THEN Str(tok.a) ELSE NULL, i + 1, skipped, i)

\* ------------------------------------------------------------ command lines

\* Option names the command lines spell in long form ("bogus" is in no table).
LongNames == {long_options[i].name : i \in 1..Len(long_options)} \cup {"bogus"}

\* Option characters the command lines spell in short form ("q" is not in
\* short_options; "H", "M", "a", "b", "c", "o", "p" are in short_options only).
ShortNames == {"h", "i", "l", "q", "t", "X", "r", "H", "M", "a", "b", "c", "o", "p"}

\* Arguments attached to an option, "--name=value" or "-lvalue".
Attached ==
  {LongEq("ntree", v) : v \in {<<"0">>, <<"2">>}}
  \cup {LongEq("fraction", <<"0", ".", "5">>), LongEq("treetype", <<"1", "5">>),
        LongEq("quantiles", <<"0", ".", "1">>)}
  \cup {LongEq(n, <<"x">>) : n \in {"file", "depvarname", "instrumentvarname"}}
  \cup {ShortArg("l", <<"2">>)}

\* Words: option arguments given as the next argv element, or operands.
WordTexts ==
  { <<"0">>, <<"1">>, <<"1", "1">>, <<"1", "5">>, <<"-", "1">>,
    <<"2", "1", "4", "7", "4", "8", "3", "6", "4", "7">>,
    <<"2", "1", "4", "7", "4", "8", "3", "6", "4", "8">>,
    <<"0", ".", "5">>, <<"1", ".", "5">>, <<"nan">>,
    <<"x">>, <<"x", ",", "y">>,
    <<"0", ".", "1", ",", "1", ".", "0">>, <<"0", ".", "2", ",", "0", ".", "3">> }

Tokens ==
  {Long(n) : n \in LongNames} \cup {Short(n) : n \in ShortNames}
  \cup Attached \cup {Word(t) : t \in WordTexts} \cup {DashDash}

\* Options spelled with their argument, one or two argv elements each.
Units ==
  { <<Long("file"), Word(<<"in", ".", "csv">>)>>,
    <<Long("depvarname"), Word(<<"y">>)>>,
    <<Long("splitweights"), Word(<<"x">>)>>,
    <<Long("alwayssplitvars"), Word(<<"x", ",", "y">>)>>,
    <<Long("ntree"), Word(<<"1", "0", "0">>)>>,
    <<LongEq("ntree", <<"0">>)>>,
    <<Short("i"), Word(<<"x">>)>> }

\* The command lines made of n units.
RECURSIVE UnitLines(_)
UnitLines(n) ==
  IF n = 0 THEN {<<>>}
  ELSE {u \o rest : u \in Units, rest \in UnitLines(n - 1)}

\* The command lines: every sequence of up to MaxArgs elements, and every
\* sequence of up to MaxUnits options with their arguments.
Argvs ==
  UNION {[1..n -> Tokens] : n \in 0..MaxArgs}
  \cup UNION {UnitLines(n) : n \in 0..MaxUnits}

\* -------------------------------------------------------------------- state

VARIABLES
  argv,     \* argv[1..argc-1]
  optind,   \* getopt: position of the next argv element to scan
  optarg,   \* getopt: argument of the option returned last
  c,        \* processArguments: what getopt_long returned last
  nonopts,  \* getopt: the non-option elements passed so far (permuted to the end)
  self,     \* the ArgumentHandler's fields
  pc,       \* "scan", "returned", "thrown", "crashed", "checked"
  ret,      \* value returned by processArguments (when pc is "returned" or later)
  exc,      \* the exception in flight (when pc = "thrown")
  cout      \* what was written to std::cout

vars == <<argv, optind, optarg, c, nonopts, self, pc, ret, exc, cout>>

\* globals.h: the default number of trees, and the number of threads that
\* stands for "the number of CPUs available".
DEFAULT_NUM_TREE == 500

DEFAULT_NUM_THREADS == 0

NoException == [type |-> "none", what |-> <<>>]

runtime_error(what) == [type |-> "runtime_error", what |-> what]

\* "Illegal argument for option '<name>'. Please give <expected>. See '--help' for details."
IllegalArgument(name, expected) ==
  runtime_error(<<"Illegal argument for option", name, expected>>)

\* ArgumentHandler::ArgumentHandler
Constructed ==
  [ caseweights |-> <<>>, depvarname |-> <<>>, fraction |-> Double(1, 1),
    savemem |-> FALSE, predict |-> <<>>, splitweights |-> <<>>,
    nthreads |-> DEFAULT_NUM_THREADS, file |-> <<>>, targetpartitionsize |-> 0,
    mtry |-> 0, quantiles |-> <<>>, statusvarname |-> <<>>,
    instrumentvarname |-> <<>>, ntree |-> DEFAULT_NUM_TREE, replace |-> TRUE,
    verbose |-> FALSE, write |-> FALSE, treetype |-> "TREE_QUANTILE", seed |-> 0,
    alwayssplitvars |-> <<>> ]

Init ==
  /\ argv \in Argvs
  /\ optind = 1
  /\ optarg = NULL
  /\ c = ""
  /\ nonopts = <<>>
  /\ self = Constructed
  /\ pc = "scan"
  /\ ret = 0
  /\ exc = NoException
  /\ cout = <<>>

\* ----------------------------------------------------------- the scan loop

\* The getopt_long call of this iteration.
G == getopt_long(argv, optind, <<>>)

\* int c = getopt_long(...) returned ch.
Fetch(ch) ==
  /\ pc = "scan"
  /\ LET g == G IN
     /\ g.c = ch
     /\ c' = ch
     /\ optarg' = g.optarg
     /\ optind' = g.optind
     /\ nonopts' = nonopts \o g.skipped
  /\ UNCHANGED argv

\* break: on to the next iteration.
Break == pc' = "scan" /\ UNCHANGED <<ret, exc, cout>>

\* throw e: processArguments is left by the exception.
Throw(e) == pc' = "thrown" /\ exc' = e /\ UNCHANGED <<ret, cout>>

\* The process is killed (a trap on undefined behaviour).
Crash == pc' = "crashed" /\ UNCHANGED <<ret, exc, cout>>

\* An integer option that stores no more than 11.
IntOption_Clamps(field, least, name, expected) ==
  LET r == stoi(optarg'.s) IN
  IF r.ok /\ ~(r.v < least)
  THEN self' = [self EXCEPT ![field] = IF r.v > 11 THEN 11 ELSE r.v] /\ Break
  ELSE UNCHANGED self /\ Throw(IllegalArgument(name, expected))

\* field = temp, or the option's error: the try block shared by the integer
\* options, with the least value the option takes.
IntOption(field, least, name, expected) ==
  LET r == stoi(optarg'.s) IN
  IF r.ok /\ ~(r.v < least)
  THEN self' = [self EXCEPT ![field] = r.v] /\ Break
  ELSE UNCHANGED self /\ Throw(IllegalArgument(name, expected))

\* What a std::string built from a null char* does (undefined behaviour):
\* libstdc++ throws std::logic_error, other builds trap.
ConstructFromNull == {"throws", "traps"}

\* What assigning a null char* to a std::string does (undefined behaviour):
\* a trap in strlen, or a string of indeterminate content.
AssignFromNull == {"traps", "indeterminate"}

CaseA ==
  /\ Fetch("A")
  /\ self' = [self EXCEPT !.alwayssplitvars = splitString(@, optarg'.s, ",")]
  /\ Break

CaseC == Fetch("C") /\ self' = [self EXCEPT !.caseweights = optarg'.s] /\ Break

CaseD == Fetch("D") /\ self' = [self EXCEPT !.depvarname = optarg'.s] /\ Break

\* fraction is assigned before it is checked.
CaseF ==
  /\ Fetch("F")
  /\ LET r == stod(optarg'.s) IN
     IF ~r.ok THEN UNCHANGED self /\ Throw(IllegalArgument("fraction", "a value in (0,1]"))
     ELSE /\ self' = [self EXCEPT !.fraction = r.v]
          /\ IF DGreater1(r.v) \/ DLessEq0(r.v)
             THEN Throw(IllegalArgument("fraction", "a value in (0,1]"))
             ELSE Break

CaseN == Fetch("N") /\ self' = [self EXCEPT !.savemem = TRUE] /\ Break

CaseP == Fetch("P") /\ self' = [self EXCEPT !.predict = optarg'.s] /\ Break

CaseS == Fetch("S") /\ self' = [self EXCEPT !.splitweights = optarg'.s] /\ Break

CaseU == Fetch("U") /\ IntOption("nthreads", 1, "nthreads", "a positive integer")

\* A case 'Z' that breaks instead of returning.
CaseZ_Break ==
  /\ Fetch("Z")
  /\ cout' = Append(cout, <<"displayVersion">>)
  /\ pc' = "scan"
  /\ UNCHANGED <<self, exc, ret>>

CaseZ ==
  /\ Fetch("Z")
  /\ cout' = Append(cout, <<"displayVersion">>)
  /\ pc' = "returned" /\ ret' = 0 - 1
  /\ UNCHANGED <<self, exc>>

Casef == Fetch("f") /\ self' = [self EXCEPT !.file = optarg'.s] /\ Break

\* A case 'h' that breaks instead of returning.
Caseh_Break ==
  /\ Fetch("h")
  /\ cout' = Append(cout, <<"displayHelp">>)
  /\ pc' = "scan"
  /\ UNCHANGED <<self, exc, ret>>

Caseh ==
  /\ Fetch("h")
  /\ cout' = Append(cout, <<"displayHelp">>)
  /\ pc' = "returned" /\ ret' = 0 - 1
  /\ UNCHANGED <<self, exc>>

\* -l is "l::" in short_options: without an attached argument optarg is null,
\* and std::stoi(optarg) builds a std::string from it inside the try block.
Casel ==
  /\ Fetch("l")
  /\ IF optarg'.null
     THEN \E ub \in ConstructFromNull :
            /\ UNCHANGED self
            /\ IF ub = "throws"
               THEN Throw(IllegalArgument("targetpartitionsize", "a positive integer"))
               ELSE Crash
     ELSE IntOption("targetpartitionsize", 1, "targetpartitionsize", "a positive integer")

Casem == Fetch("m") /\ IntOption("mtry", 1, "mtry", "a positive integer")

\* The for loop of case 'q' from split_args[i] on: each quantile is pushed as
\* soon as it passed; std::stod's own exception is not caught.
RECURSIVE PushQuantiles(_, _, _)
PushQuantiles(quantiles, split_args, i) ==
  IF i > Len(split_args) THEN [quantiles |-> quantiles, exc |-> NoException]
  ELSE LET r == stod(split_args[i]) IN
       IF ~r.ok THEN [quantiles |-> quantiles, exc |-> [type |-> r.what, what |-> <<"stod">>]]
       ELSE IF DGreaterEq1(r.v) \/ DLessEq0(r.v)
       THEN [quantiles |-> quantiles,
             exc |-> runtime_error(<<"All quantiles must lie in the range (0, 1).">>)]
       ELSE PushQuantiles(Append(quantiles, r.v), split_args, i + 1)

Caseq ==
  /\ Fetch("q")
  /\ LET split_args == splitString(<<>>, optarg'.s, ",")
         r == PushQuantiles(self.quantiles, split_args, 1)
     IN  /\ self' = [self EXCEPT !.quantiles = r.quantiles]
         /\ IF r.exc = NoException THEN Break ELSE Throw(r.exc)

Cases == Fetch("s") /\ self' = [self EXCEPT !.statusvarname = optarg'.s] /\ Break

\* -i is "i" without a colon in short_options: optarg is null there.
Casei ==
  /\ Fetch("i")
  /\ IF optarg'.null
     THEN \E ub \in AssignFromNull :
            IF ub = "traps" THEN UNCHANGED self /\ Crash
            ELSE self' = [self EXCEPT !.instrumentvarname = INDETERMINATE] /\ Break
     ELSE self' = [self EXCEPT !.instrumentvarname = optarg'.s] /\ Break

\* A case 't' that stores the value into mtry as well.
Caset_AlsoMtry ==
  /\ Fetch("t")
  /\ LET r == stoi(optarg'.s) IN
     IF r.ok /\ ~(r.v < 1)
     THEN self' = [self EXCEPT !.ntree = r.v, !.mtry = r.v] /\ Break
     ELSE UNCHANGED self /\ Throw(IllegalArgument("ntree", "a positive integer"))

Caset == Fetch("t") /\ IntOption("ntree", 1, "ntree", "a positive integer")

Caseu == Fetch("u") /\ self' = [self EXCEPT !.replace = FALSE] /\ Break

Casev == Fetch("v") /\ self' = [self EXCEPT !.verbose = TRUE] /\ Break

Casew == Fetch("w") /\ self' = [self EXCEPT !.write = TRUE] /\ Break

\* A switch that also takes code 1 of the help text.
TreeTypeOfCode_AlsoOne(code) ==
  CASE code = 11 -> <<"TREE_QUANTILE">>
    [] code = 15 -> <<"TREE_INSTRUMENTAL">>
    [] code = 1  -> <<"TREE_QUANTILE">>
    [] OTHER -> <<>>

\* switch (std::stoi(optarg)) of case 'y': the tree type of a code, or none.
TreeTypeOfCode(code) ==
  CASE code = 11 -> <<"TREE_QUANTILE">>
    [] code = 15 -> <<"TREE_INSTRUMENTAL">>
    [] OTHER -> <<>>

Casey ==
  /\ Fetch("y")
  /\ LET r == stoi(optarg'.s)
         t == IF r.ok THEN TreeTypeOfCode(r.v) ELSE <<>>
     IN  IF t # <<>>
         THEN self' = [self EXCEPT !.treetype = t[1]] /\ Break
         ELSE UNCHANGED self /\ Throw(IllegalArgument("treetype", "a positive integer"))

Casez == Fetch("z") /\ IntOption("seed", 0, "seed", "a positive integer")

\* The characters the switch has a case for.
Handled ==
  {"A", "C", "D", "F", "N", "P", "S", "U", "Z", "f", "h", "l", "m", "q", "s", "i",
   "t", "u", "v", "w", "y", "z"}

\* Everything getopt_long can return but -1: the short option characters,
\* the val of the long options, and '?'.
Returnable ==
  ({short_options[i] : i \in 1..Len(short_options)} \ {":"})
  \cup {long_options[i].val : i \in 1..Len(long_options)} \cup {"?"}

\* A default case that takes an option without a handler for an error.
CaseDefault_Fatal ==
  /\ \E ch \in Returnable \ Handled : Fetch(ch)
  /\ UNCHANGED self
  /\ Throw(runtime_error(<<"Unknown option">>))

\* default: break;  ('?' and the options without a case)
CaseDefault ==
  /\ \E ch \in Returnable \ Handled : Fetch(ch)
  /\ UNCHANGED self
  /\ Break

\* "Other parameter, not processed: " for each remaining element.
OtherParameters(rest) == [i \in 1..Len(rest) |-> <<"Other parameter, not processed", Spelling(rest[i])>>]

\* c == -1: leave the loop, print the other parameters, return 0.
EndOfOptions ==
  /\ Fetch("-1")
  /\ cout' = cout \o OtherParameters(nonopts')
  /\ pc' = "returned" /\ ret' = 0
  /\ UNCHANGED <<self, exc>>

\* ----------------------------------------------------------- checkArguments

\* A checkArguments that looks at the status variable before the instrument.
checkArguments_StatusFirst(h) ==
  IF h.file = <<>>
    THEN runtime_error(<<"Please specify an input filename with '--file'.">>)
  ELSE IF h.predict = <<>> /\ h.depvarname = <<>>
    THEN runtime_error(<<"Please specify a dependent variable name with '--depvarname'.">>)
  ELSE IF h.treetype = "TREE_INSTRUMENTAL" /\ h.statusvarname = <<>>
    THEN runtime_error(<<"When using instrumental trees, the treatment variable must be specified through--statusvarname.">>)
  ELSE IF h.treetype = "TREE_INSTRUMENTAL" /\ h.instrumentvarname = <<>>
    THEN runtime_error(<<"When using instrumental trees, the instrument variable must be specified through--instrumentvarname.">>)
  ELSE IF h.alwayssplitvars # <<>> /\ h.splitweights # <<>>
    THEN runtime_error(<<"Please use only one option of splitweights and alwayssplitvars.">>)
  ELSE NoException

\* A checkArguments without the last rule.
checkArguments_NoExclusion(h) ==
  IF h.file = <<>>
    THEN runtime_error(<<"Please specify an input filename with '--file'.">>)
  ELSE IF h.predict = <<>> /\ h.depvarname = <<>>
    THEN runtime_error(<<"Please specify a dependent variable name with '--depvarname'.">>)
  ELSE IF h.treetype = "TREE_INSTRUMENTAL" /\ h.instrumentvarname = <<>>
    THEN runtime_error(<<"When using instrumental trees, the instrument variable must be specified through--instrumentvarname.">>)
  ELSE IF h.treetype = "TREE_INSTRUMENTAL" /\ h.statusvarname = <<>>
    THEN runtime_error(<<"When using instrumental trees, the treatment variable must be specified through--statusvarname.">>)
  ELSE NoException

\* A checkArguments whose second instrument check is what its message says:
\* an instrument variable given for a forest that is not instrumental.
checkArguments_OnlyApplicable(h) ==
  IF h.file = <<>>
    THEN runtime_error(<<"Please specify an input filename with '--file'.">>)
  ELSE IF h.predict = <<>> /\ h.depvarname = <<>>
    THEN runtime_error(<<"Please specify a dependent variable name with '--depvarname'.">>)
  ELSE IF h.treetype = "TREE_INSTRUMENTAL" /\ h.instrumentvarname = <<>>
    THEN runtime_error(<<"When using instrumental trees, the instrument variable must be specified through--instrumentvarname.">>)
  ELSE IF h.treetype = "TREE_INSTRUMENTAL" /\ h.statusvarname = <<>>
    THEN runtime_error(<<"When using instrumental trees, the treatment variable must be specified through--statusvarname.">>)
  ELSE IF h.treetype # "TREE_INSTRUMENTAL" /\ h.instrumentvarname # <<>>
    THEN runtime_error(<<"Option '--instrumentvarname' only applicable for instrumental forests.">>)
  ELSE IF h.alwayssplitvars # <<>> /\ h.splitweights # <<>>
    THEN runtime_error(<<"Please use only one option of splitweights and alwayssplitvars.">>)
  ELSE NoException

\* The exception checkArguments throws for a configuration, or none.
checkArguments(h) ==
  IF h.file = <<>>
    THEN runtime_error(<<"Please specify an input filename with '--file'.">>)
  ELSE IF h.predict = <<>> /\ h.depvarname = <<>>
    THEN runtime_error(<<"Please specify a dependent variable name with '--depvarname'.">>)
  ELSE IF h.treetype = "TREE_INSTRUMENTAL" /\ h.instrumentvarname = <<>>
    THEN runtime_error(<<"When using instrumental trees, the instrument variable must be specified through--instrumentvarname.">>)
  ELSE IF h.treetype = "TREE_INSTRUMENTAL" /\ h.statusvarname = <<>>
    THEN runtime_error(<<"When using instrumental trees, the treatment variable must be specified through--statusvarname.">>)
  ELSE IF h.treetype = "TREE_INSTRUMENTAL" /\ h.instrumentvarname = <<>>
    THEN runtime_error(<<"Option '--instrumentvarname' only applicable for instrumental forests.">>)
  ELSE IF h.alwayssplitvars # <<>> /\ h.splitweights # <<>>
    THEN runtime_error(<<"Please use only one option of splitweights and alwayssplitvars.">>)
  ELSE NoException

\* The caller runs the validator only after processArguments returned 0.
CallerProceeds == pc = "returned" /\ ret = 0

\* The run is over: validated, ended by an error or a trap, or stopped by
\* help or version.
Final == pc \in {"checked", "thrown", "crashed"} \/ (pc = "returned" /\ ret # 0)

\* Where this run stands, as the run function reports it.
Here == [pc |-> pc, ret |-> ret, self |-> self, exc |-> exc]

CheckArguments ==
  /\ CallerProceeds
  /\ LET e == checkArguments(self) IN
     IF e = NoException THEN pc' = "checked" /\ UNCHANGED exc
     ELSE pc' = "thrown" /\ exc' = e
  /\ UNCHANGED <<argv, optind, optarg, c, nonopts, self, ret, cout>>

Next ==
  \/ CaseA \/ CaseC \/ CaseD \/ CaseF \/ CaseN \/ CaseP \/ CaseS \/ CaseU \/ CaseZ
  \/ Casef \/ Caseh \/ Casel \/ Casem \/ Caseq \/ Cases \/ Casei \/ Caset
  \/ Caseu \/ Casev \/ Casew \/ Casey \/ Casez
  \/ CaseDefault \/ EndOfOptions \/ CheckArguments

Spec == Init /\ [][Next]_vars

\* --------------------------------------------- the validator on its own

\* Configurations handed to checkArguments: each string that it reads empty
\* or not, both tree types, the list empty or not.
Names == {<<>>, <<"x">>}

Configurations ==
  { [Constructed EXCEPT !.file = f, !.predict = p, !.depvarname = d,
                        !.instrumentvarname = i, !.statusvarname = st,
                        !.splitweights = w, !.alwayssplitvars = a, !.treetype = t]
    : f \in Names, p \in Names, d \in Names, i \in Names, st \in Names, w \in Names,
      a \in {<<>>, <<<<"x">>>>}, t \in {"TREE_QUANTILE", "TREE_INSTRUMENTAL"} }

InitCheck ==
  /\ argv = <<>>
  /\ optind = 1
  /\ optarg = NULL
  /\ c = "-1"
  /\ nonopts = <<>>
  /\ self \in Configurations
  /\ pc = "returned"
  /\ ret = 0
  /\ exc = NoException
  /\ cout = <<>>

SpecCheck == InitCheck /\ [][CheckArguments]_vars

\* ---------------------------------------------------- the run as a function

\* How processArguments stands after a case of the switch: in the loop
\* ("scan"), returned, left by an exception, or killed by a trap.
Goes(h) == {[pc |-> "scan", ret |-> 0, self |-> h, exc |-> NoException]}

Returns(h, r) == {[pc |-> "returned", ret |-> r, self |-> h, exc |-> NoException]}

Throws(h, e) == {[pc |-> "thrown", ret |-> 0, self |-> h, exc |-> e]}

Traps(h) == {[pc |-> "crashed", ret |-> 0, self |-> h, exc |-> NoException]}

\* The try block of an integer option.
IntCase(h, arg, field, least, name, expected) ==
  LET r == stoi(arg.s) IN
  IF r.ok /\ ~(r.v < least) THEN Goes([h EXCEPT ![field] = r.v])
  ELSE Throws(h, IllegalArgument(name, expected))

\* switch (c) on the fields h with optarg = arg: every way the case can end.
Switch(ch, arg, h) ==
  CASE ch = "A" -> Goes([h EXCEPT !.alwayssplitvars = splitString(@, arg.s, ",")])
    [] ch = "C" -> Goes([h EXCEPT !.caseweights = arg.s])
    [] ch = "D" -> Goes([h EXCEPT !.depvarname = arg.s])
    [] ch = "F" ->
         LET r == stod(arg.s) IN
         IF ~r.ok THEN Throws(h, IllegalArgument("fraction", "a value in (0,1]"))
         ELSE IF DGreater1(r.v) \/ DLessEq0(r.v)
         THEN Throws([h EXCEPT !.fraction = r.v], IllegalArgument("fraction", "a value in (0,1]"))
         ELSE Goes([h EXCEPT !.fraction = r.v])
    [] ch = "N" -> Goes([h EXCEPT !.savemem = TRUE])
    [] ch = "P" -> Goes([h EXCEPT !.predict = arg.s])
    [] ch = "S" -> Goes([h EXCEPT !.splitweights = arg.s])
    [] ch = "U" -> IntCase(h, arg, "nthreads", 1, "nthreads", "a positive integer")
    [] ch = "Z" -> Returns(h, 0 - 1)
    [] ch = "f" -> Goes([h EXCEPT !.file = arg.s])
    [] ch = "h" -> Returns(h, 0 - 1)
    [] ch = "l" ->
         IF arg.null
         THEN UNION { IF ub = "throws"
                      THEN Throws(h, IllegalArgument("targetpartitionsize", "a positive integer"))
                      ELSE Traps(h) : ub \in ConstructFromNull }
         ELSE IntCase(h, arg, "targetpartitionsize", 1, "targetpartitionsize", "a positive integer")
    [] ch = "m" -> IntCase(h, arg, "mtry", 1, "mtry", "a positive integer")
    [] ch = "q" ->
         LET r == PushQuantiles(h.quantiles, splitString(<<>>, arg.s, ","), 1) IN
         IF r.exc = NoException THEN Goes([h EXCEPT !.quantiles = r.quantiles])
         ELSE Throws([h EXCEPT !.quantiles = r.quantiles], r.exc)
    [] ch = "s" -> Goes([h EXCEPT !.statusvarname = arg.s])
    [] ch = "i" ->
         IF arg.null
         THEN UNION { IF ub = "traps" THEN Traps(h)
                      ELSE Goes([h EXCEPT !.instrumentvarname = INDETERMINATE])
                      : ub \in AssignFromNull }
         ELSE Goes([h EXCEPT !.instrumentvarname = arg.s])
    [] ch = "t" -> IntCase(h, arg, "ntree", 1, "ntree", "a positive integer")
    [] ch = "u" -> Goes([h EXCEPT !.replace = FALSE])
    [] ch = "v" -> Goes([h EXCEPT !.verbose = TRUE])
    [] ch = "w" -> Goes([h EXCEPT !.write = TRUE])
    [] ch = "y" ->
         LET r == stoi(arg.s)
             t == IF r.ok THEN TreeTypeOfCode(r.v) ELSE <<>>
         IN  IF t # <<>> THEN Goes([h EXCEPT !.treetype = t[1]])
             ELSE Throws(h, IllegalArgument("treetype", "a positive integer"))
    [] ch = "z" -> IntCase(h, arg, "seed", 0, "seed", "a positive integer")
    [] OTHER -> Goes(h)

\* The while loop of processArguments from optind = i on, with the fields h.
RECURSIVE ScanLoop(_, _, _)
ScanLoop(av, i, h) ==
  LET g == getopt_long(av, i, <<>>) IN
  IF g.c = "-1" THEN Returns(h, 0)
  ELSE UNION { IF o.pc = "scan" THEN ScanLoop(av, g.optind, o.self) ELSE {o}
               : o \in Switch(g.c, g.optarg, h) }

\* processArguments(argc, argv) on a fresh ArgumentHandler: every way it can end.
processArguments(av) == ScanLoop(av, 1, Constructed)

\* processArguments, then checkArguments when it returned 0.
Run(av) ==
  { IF o.pc = "returned" /\ o.ret = 0
    THEN LET e == checkArguments(o.self) IN
         IF e = NoException THEN [o EXCEPT !.pc = "checked"]
         ELSE [o EXCEPT !.pc = "thrown", !.exc = e]
    ELSE o
    : o \in processArguments(av) }

\* ------------------------------------------------- what a command line says

\* The getopt_long results of a scan of av from position i that no handler
\* ends: the options of the command line, in order.
RECURSIVE ScanFrom(_, _)
ScanFrom(av, i) ==
  LET r == getopt_long(av, i, <<>>) IN
  IF r.c = "-1" THEN <<>> ELSE <<r>> \o ScanFrom(av, r.optind)

Options(av) == ScanFrom(av, 1)

Terminated == pc \in {"returned", "thrown", "crashed", "checked"}

Proceeds == pc = "returned" /\ ret = 0

\* Option characters to external names and fields.
OptionName ==
  [ch \in {long_options[i].val : i \in 1..Len(long_options)} |->
     (CHOOSE e \in {long_options[i] : i \in 1..Len(long_options)} : e.val = ch).name]

IntegerOptions == {"U", "l", "m", "t", "z"}

StringOptions == {"C", "D", "P", "S", "f", "s", "i"}

ArgumentOptions == IntegerOptions \cup StringOptions \cup {"A", "F", "q", "y"}

\* 0 < x < 1 and 0 < x <= 1 as numbers (NaN and the infinities are not).
InOpenUnit(x) == x.cls = "fin" /\ x.num > 0 /\ x.num < x.den

InHalfOpenUnit(x) == x.cls = "fin" /\ x.num > 0 /\ x.num <= x.den

\* -------------------------------------------------------------------- C1
\* What a field may hold after a completed scan: its default or a value
\* inside the option's range.
DefaultOrValidated(h) ==
  /\ h.ntree >= 1
  /\ h.nthreads = DEFAULT_NUM_THREADS \/ h.nthreads >= 1
  /\ h.mtry = 0 \/ h.mtry >= 1
  /\ h.targetpartitionsize = 0 \/ h.targetpartitionsize >= 1
  /\ h.seed >= 0
  /\ InHalfOpenUnit(h.fraction)
  /\ \A k \in 1..Len(h.quantiles) : InOpenUnit(h.quantiles[k])
  /\ h.treetype \in {"TREE_QUANTILE", "TREE_INSTRUMENTAL"}
  /\ \A f \in {"caseweights", "depvarname", "predict", "splitweights", "file",
               "statusvarname", "instrumentvarname"} : h[f] # INDETERMINATE

\* C1: whenever processArguments returns 0, every field holds its
\* constructor default or a validated value: ntree >= 1, nthreads >= 1 (or
\* its default), mtry = 0 or >= 1, targetpartitionsize = 0 or >= 1,
\* seed >= 0, 0 < fraction <= 1, every quantile in (0,1), a tree type of the
\* enum, and every string a well-formed string.
C1_ValidAfterScan == Proceeds => DefaultOrValidated(self)

\* -------------------------------------------------------------------- C2
\* The least value each integer option accepts, a parsed value outside an
\* option's range, and the malformed-option outcome naming an option.
LeastValue == [ch \in IntegerOptions |-> IF ch = "z" THEN 0 ELSE 1]

ViolatesBound(ch, text) ==
  IF ch = "F" THEN stod(text).ok /\ ~InHalfOpenUnit(stod(text).v)
  ELSE stoi(text).ok /\ stoi(text).v < LeastValue[ch]

MalformedOption(name) ==
  /\ pc = "thrown"
  /\ exc.type = "runtime_error"
  /\ Len(exc.what) >= 2
  /\ exc.what[1] = "Illegal argument for option"
  /\ exc.what[2] = name

\* C2: a numeric scalar option given a value that violates its bound (ntree,
\* mtry, targetpartitionsize, nthreads below 1; seed below 0; fraction not
\* in (0,1]) ends the scan with the malformed-option error that names it.
C2_BoundViolationAborts ==
  (c \in IntegerOptions \cup {"F"} /\ ~optarg.null /\ ViolatesBound(c, optarg.s))
    => MalformedOption(OptionName[c])

ElementOutsideUnit(text) ==
  LET args == SplitFrom(text, 1, <<>>, ",") IN
  \E k \in 1..Len(args) : stod(args[k]).ok /\ ~InOpenUnit(stod(args[k]).v)

\* C4: a quantiles argument with an element outside (0,1), at any position,
\* fails the option and leaves the stored quantiles as they were before it.
C4_NoPartialQuantiles ==
  [][ (pc = "scan" /\ c' = "q" /\ ElementOutsideUnit(optarg'.s))
        => (pc' = "thrown" /\ self'.quantiles = self.quantiles) ]_vars

\* -------------------------------------------------------------------- C5
\* The five rules in their order, and the error each one raises.
Rule(n, h) ==
  CASE n = 1 -> h.file # <<>>
    [] n = 2 -> h.predict # <<>> \/ h.depvarname # <<>>
    [] n = 3 -> h.treetype = "TREE_INSTRUMENTAL" => h.instrumentvarname # <<>>
    [] n = 4 -> h.treetype = "TREE_INSTRUMENTAL" => h.statusvarname # <<>>
    [] n = 5 -> ~(h.splitweights # <<>> /\ h.alwayssplitvars # <<>>)

RuleError(n) ==
  CASE n = 1 -> <<"Please specify an input filename with '--file'.">>
    [] n = 2 -> <<"Please specify a dependent variable name with '--depvarname'.">>
    [] n = 3 -> <<"When using instrumental trees, the instrument variable must be specified through--instrumentvarname.">>
    [] n = 4 -> <<"When using instrumental trees, the treatment variable must be specified through--statusvarname.">>
    [] n = 5 -> <<"Please use only one option of splitweights and alwayssplitvars.">>

Violated(h) == {n \in 1..5 : ~Rule(n, h)}

\* C5: checkArguments succeeds exactly when the five rules hold, and
\* otherwise raises the error of the lowest-numbered violated rule.
C5_FirstViolatedRule ==
  /\ pc = "checked" => Violated(self) = {}
  /\ pc = "thrown" =>
       /\ Violated(self) # {}
       /\ exc = runtime_error(RuleError(CHOOSE n \in Violated(self) :
                                          \A m \in Violated(self) : n <= m))

C5_Witness ==
  /\ pc = "thrown"
  /\ self.treetype = "TREE_INSTRUMENTAL"
  /\ self.instrumentvarname = <<>> /\ self.statusvarname = <<>>
  /\ exc = runtime_error(RuleError(3))

\* -------------------------------------------------------------------- C6
\* The first help option of the command line, as a getopt result (there is one).
HelpGiven(av) == LET o == Options(av) IN \E k \in 1..Len(o) : o[k].c = "h"

FirstHelp(av) ==
  LET o == Options(av)
      k == CHOOSE j \in 1..Len(o) : o[j].c = "h" /\ \A i \in 1..(j - 1) : o[i].c # "h"
  IN  o[k]

C7_StopAtHelpOrVersion ==
  [][ /\ (pc = "scan" /\ G.c \in {"h", "Z"})
        => /\ pc' = "returned" /\ ret' = 0 - 1 /\ exc' = NoException
           /\ self' = self
           /\ optind' = G.at + 1
      /\ ~(pc = "returned" /\ ret = 0 - 1) ]_vars

C7_Witness ==
  /\ pc = "returned" /\ ret = 0 - 1 /\ c \in {"h", "Z"}
  /\ self.ntree = 2

\* -------------------------------------------------------------------- C8
UnknownSpelling(tok) ==
  \/ tok.k = "long" /\ LongEntries[tok.n] = {}
  \/ tok.k = "short" /\ ShortArity[tok.n] = "unknown"

UnknownOptionGiven(av) ==
  \E k \in 1..Len(Options(av)) :
    Options(av)[k].c = "?" /\ UnknownSpelling(av[Options(av)[k].at])

\* C8: an unrecognized option spelling is fatal: processArguments never
\* returns 0 for a command line that holds one.
C8_UnknownOptionFatal == Proceeds => ~UnknownOptionGiven(argv)

\* -------------------------------------------------------------------- C9
\* A required-argument option stands last, with no argument.
ArgumentMissing(av) ==
  /\ Len(av) >= 1
  /\ Len(Options(av)) >= 1
  /\ LET r == Options(av)[Len(Options(av))] IN
     r.at = Len(av) /\ r.c = "?" /\ ~UnknownSpelling(av[r.at]) /\ ~av[r.at].has

\* C9: a required-argument option given last without a value fails the
\* process: processArguments never returns 0 for it.
C9_MissingArgumentFatal == Proceeds => ~ArgumentMissing(argv)

\* ------------------------------------------------------------------- C10
FieldOf ==
  [ch \in ArgumentOptions |->
     CASE ch = "A" -> "alwayssplitvars" [] ch = "C" -> "caseweights"
       [] ch = "D" -> "depvarname"      [] ch = "F" -> "fraction"
       [] ch = "P" -> "predict"         [] ch = "S" -> "splitweights"
       [] ch = "U" -> "nthreads"        [] ch = "f" -> "file"
       [] ch = "l" -> "targetpartitionsize" [] ch = "m" -> "mtry"
       [] ch = "q" -> "quantiles"       [] ch = "s" -> "statusvarname"
       [] ch = "i" -> "instrumentvarname" [] ch = "t" -> "ntree"
       [] ch = "y" -> "treetype"        [] ch = "z" -> "seed"]

\* The value of an option's field that one valid argument stands for.
ValueOf(ch, text) ==
  CASE ch \in IntegerOptions -> stoi(text).v
    [] ch \in StringOptions -> text
    [] ch = "F" -> stod(text).v
    [] ch = "y" -> IF stoi(text).v = 11 THEN "TREE_QUANTILE" ELSE "TREE_INSTRUMENTAL"
    [] ch = "A" -> SplitFrom(text, 1, <<>>, ",")
    [] ch = "q" -> LET args == SplitFrom(text, 1, <<>>, ",")
                   IN  [k \in 1..Len(args) |-> stod(args[k]).v]

Occurrences(av, ch) == LET o == Options(av) IN {k \in 1..Len(o) : o[k].c = ch}

LastArgument(av, ch) ==
  LET occ == Occurrences(av, ch) IN
  Options(av)[CHOOSE k \in occ : \A j \in occ : j <= k].optarg

\* C10: after a completed scan the field of every argument-bearing option
\* that was given holds the value of its last occurrence alone.
C10_LastOccurrenceWins ==
  Proceeds =>
    \A ch \in ArgumentOptions :
      (Occurrences(argv, ch) # {} /\ ~LastArgument(argv, ch).null)
        => self[FieldOf[ch]] = ValueOf(ch, LastArgument(argv, ch).s)

\* ------------------------------------------------------------------- C11
\* The run function and the steps of the model describe the same runs.
RunAgrees ==
  /\ Final => Here \in Run(argv)
  /\ Proceeds => Here \in processArguments(argv)

\* An argv element with its option spelled in long form.
LongSpelling(tok) ==
  IF tok.k = "short" /\ tok.n \in DOMAIN OptionName
  THEN [k |-> "long", n |-> OptionName[tok.n], has |-> tok.has, a |-> tok.a]
  ELSE tok

LongForm(av) == [k \in 1..Len(av) |-> LongSpelling(av[k])]

\* Every short spelling of an argument-bearing option comes with a value:
\* attached, or as the next element.
ShortWithValue(av) ==
  \A k \in 1..Len(av) :
    (av[k].k = "short" /\ av[k].n \in ArgumentOptions /\ ~av[k].has)
      => (k < Len(av) /\ av[k + 1].k = "word")

\* No element that spells an option is taken as the argument of another.
ValuesAreWords(av) ==
  LET o == Options(av) IN
  \A j \in 1..Len(o) : o[j].optind = o[j].at + 2 => av[o[j].at + 1].k = "word"

\* C11: the short spelling of an option of long_options has the arity of
\* the long one, and a command line whose short spellings are followed by their values
\* ends as the command line with the long spellings in their place does:
\* same outcome, same configuration.
C11_SpellingsEquivalent ==
  (Final /\ ShortWithValue(argv) /\ ValuesAreWords(argv) /\ ValuesAreWords(LongForm(argv))) =>
    /\ \A k \in 1..Len(argv) :
         (argv[k].k = "short" /\ argv[k].n \in DOMAIN OptionName)
           => \A e \in LongEntries[OptionName[argv[k].n]] : ShortArity[argv[k].n] = e.has_arg
    /\ Here \in Run(LongForm(argv))

\* ------------------------------------------------------------------- C12
\* The option character an argv element spells ("" when it spells none).
OptionOf(tok) ==
  IF tok.k = "long" /\ LongEntries[tok.n] # {}
  THEN (CHOOSE e \in LongEntries[tok.n] : TRUE).val
  ELSE IF tok.k = "short" THEN tok.n ELSE ""

\* A command line cut into options with their arguments: an element that
\* spells an argument-bearing option with its value attached, or such an
\* element and the word after it; any other element stands alone, opt = "".
RECURSIVE UnitsOf(_, _)
UnitsOf(av, i) ==
  IF i > Len(av) THEN <<>>
  ELSE IF OptionOf(av[i]) \in ArgumentOptions /\ av[i].has
  THEN <<[opt |-> OptionOf(av[i]), toks |-> <<av[i]>>]>> \o UnitsOf(av, i + 1)
  ELSE IF OptionOf(av[i]) \in ArgumentOptions /\ i < Len(av) /\ av[i + 1].k = "word"
  THEN <<[opt |-> OptionOf(av[i]), toks |-> <<av[i], av[i + 1]>>]>> \o UnitsOf(av, i + 2)
  ELSE <<[opt |-> "", toks |-> <<av[i]>>]>> \o UnitsOf(av, i + 1)

\* The command line is made of distinct data-bearing options with their
\* arguments and nothing else.
DistinctDataOptions(av) ==
  LET u == UnitsOf(av, 1) IN
  /\ \A k \in 1..Len(u) : u[k].opt # ""
  /\ \A j, k \in 1..Len(u) : u[j].opt = u[k].opt => j = k

RECURSIVE Flatten(_)
Flatten(seqs) == IF seqs = <<>> THEN <<>> ELSE Head(seqs) \o Flatten(Tail(seqs))

\* The command lines with the same options in another order.
Reorderings(av) ==
  LET u == UnitsOf(av, 1) IN
  { Flatten([k \in 1..Len(u) |-> u[p[k]].toks]) : p \in Permutations(1..Len(u)) }

\* The exit behaviour of a run: proceed, stop with an error, stop without
\* running (help, version), or killed.
Kind(o) ==
  CASE o.pc = "checked"  -> "proceed"
    [] o.pc = "thrown"   -> "error"
    [] o.pc = "returned" -> "stop"
    [] o.pc = "crashed"  -> "killed"

SameResult(o1, o2) ==
  /\ Kind(o1) = Kind(o2)
  /\ Kind(o1) = "proceed" => o1.self = o2.self

\* C12: a command line of distinct data-bearing options with their arguments
\* ends, after scan and validation, as each of its reorderings does: the
\* same exit behaviour and, on success, the same configuration.
C12_OrderIndependent ==
  (Final /\ DistinctDataOptions(argv)) =>
    \A other \in Reorderings(argv) : \E o \in Run(other) : SameResult(Here, o)

\* ------------------------------------------------------------------- C13
\* The command line gives option ch, each time with an argument that its
\* field keeps as a non-empty value.
Supplies(av, ch) ==
  LET o == Options(av) IN
  /\ \E k \in 1..Len(o) : o[k].c = ch
  /\ \A k \in 1..Len(o) :
       o[k].c = ch => (~o[k].optarg.null /\ ValueOf(ch, o[k].optarg.s) # <<>>)

\* checkArguments ran (the scan came to its end and returned 0).
Validated == c = "-1" /\ pc \in {"checked", "thrown"}

\* C13: for a command line that gives both splitweights and alwayssplitvars,
\* in whatever order and among whatever other options, validation never
\* succeeds, and when rules 1-4 hold checkArguments raises the
\* mutual-exclusion error; no validated configuration has both fields set.
C13_MutualExclusion ==
  /\ (Validated /\ Supplies(argv, "S") /\ Supplies(argv, "A")) =>
       /\ pc = "thrown"
       /\ (\A n \in 1..4 : Rule(n, self)) => exc = runtime_error(RuleError(5))
  /\ pc = "checked" => ~(self.splitweights # <<>> /\ self.alwayssplitvars # <<>>)

\* --alwayssplitvars x,y --splitweights x among --file and --depvarname,
\* alwayssplitvars first: the mutual-exclusion error.
C13_Witness ==
  /\ Validated /\ pc = "thrown" /\ exc = runtime_error(RuleError(5))
  /\ Len(argv) = 8
  /\ argv[1] = Long("alwayssplitvars") /\ argv[5] = Long("splitweights")
  /\ self.file # <<>> /\ self.depvarname # <<>>

\* ------------------------------------------------------------------- C14
\* The field of each flag.
FlagField ==
  [ch \in {"N", "u", "v", "w"} |->
     CASE ch = "N" -> "savemem" [] ch = "u" -> "replace"
       [] ch = "v" -> "verbose" [] ch = "w" -> "write"]

\* The fields whose option appears on the command line.
FieldsGiven(av) ==
  LET o == Options(av) IN
  {FieldOf[o[k].c] : k \in {j \in 1..Len(o) : o[j].c \in ArgumentOptions}}
  \cup {FlagField[o[k].c] : k \in {j \in 1..Len(o) : o[j].c \in DOMAIN FlagField}}

\* --file in.csv --depvarname y --ntree 100
FileDepvarNtree ==
  << Long("file"), Word(<<"in", ".", "csv">>), Long("depvarname"), Word(<<"y">>),
     Long("ntree"), Word(<<"1", "0", "0">>) >>

IsDecimal(text) == Len(text) >= 1 /\ \A k \in 1..Len(text) : text[k] \in Digits

DecimalAtLeast(text, least) ==
  IsDecimal(text) /\ (least = 0 \/ \E k \in 1..Len(text) : text[k] # "0")

\* The integer is a value of int.
DecimalFitsInt(text) ==
  FitsInt(text, 1 + ZeroRun(text, 1), Len(text) - ZeroRun(text, 1), FALSE)

ElementMalformed(text) ==
  LET args == SplitFrom(text, 1, <<>>, ",") IN
  \E k \in 1..Len(args) : ~stod(args[k]).ok

\* C16: a quantiles argument with an element that is no number, or with an
\* element outside (0,1), ends the scan with the malformed-option error of
\* the other options, naming quantiles.
C16_QuantilesUniformError ==
  (c = "q" /\ ~optarg.null /\ (ElementMalformed(optarg.s) \/ ElementOutsideUnit(optarg.s)))
    => MalformedOption("quantiles")

\* ------------------------------------------------------------------- C17
\* checkArguments with its second instrument check taken out: the five
\* rules in their order.
WithoutSecondInstrumentCheck(h) ==
  IF Violated(h) = {} THEN NoException
  ELSE runtime_error(RuleError(CHOOSE n \in Violated(h) : \A m \in Violated(h) : n <= m))

\* C17: the check with the message "Option '--instrumentvarname' only
\* applicable for instrumental forests." never raises, and checkArguments
\* ends for every configuration as it would without that check.
C17_SecondCheckNeverRaises ==
  /\ exc # runtime_error(<<"Option '--instrumentvarname' only applicable for instrumental forests.">>)
  /\ Validated => exc = WithoutSecondInstrumentCheck(self)
  /\ pc = "returned" => checkArguments(self) = WithoutSecondInstrumentCheck(self)

\* The condition of the second check holds (an instrumental forest without
\* an instrument variable, rules 1 and 2 satisfied) and rule 3 has raised.
C17_Witness ==
  /\ Validated /\ pc = "thrown"
  /\ self.file # <<>> /\ self.depvarname # <<>>
  /\ self.treetype = "TREE_INSTRUMENTAL" /\ self.instrumentvarname = <<>>
  /\ self.statusvarname # <<>>
  /\ exc = runtime_error(RuleError(3))

\* ------------------------------------------------------------------- C18
ScalarOptions == IntegerOptions \cup {"F", "y"}

\* C18: when a scalar numeric option ends the scan with its error, its field
\* holds what it held before the option was processed.
C18_RejectedValueNotWritten ==
  [][ (pc = "scan" /\ c' \in ScalarOptions /\ pc' = "thrown")
        => self'[FieldOf[c']] = self[FieldOf[c']] ]_vars

\* ------------------------------------------------------------------- C19
\* The options of the tables that the switch has no case for.
Unhandled == (Returnable \ Handled) \ {"?"}

\* The command line without the elements of those options and of their
\* arguments.
RECURSIVE WithoutUnhandled(_, _)
WithoutUnhandled(av, i) ==
  LET g == getopt_long(av, i, <<>>) IN
  IF g.c = "-1" THEN SubSeq(av, i, Len(av))
  ELSE SubSeq(av, i, g.at - 1)
       \o (IF g.c \in Unhandled THEN <<>> ELSE SubSeq(av, g.at, g.optind - 1))
       \o WithoutUnhandled(av, g.optind)

UnhandledGiven(av) == LET o == Options(av) IN \E k \in 1..Len(o) : o[k].c \in Unhandled

====
